---- MODULE Spec2Model ----
(***************************************************************************)
(* Model of the HT16K33 LED controller driver                              *)
(* (src/semaphore/chip/drivers/python/grid_io/ht16k33.py).                 *)
(*                                                                         *)
(* The state is the driver object's software display buffer together with  *)
(* a record of the most recent call: its name, its arguments, the          *)
(* exception it raised (if any), the value it returned, the buffer as it   *)
(* was when the call started and the transport writes the call attempted.  *)
(***************************************************************************)
EXTENDS Integers, Sequences, FiniteSets, TLC

VARIABLES
    ready,      \* TRUE once __init__ has returned normally
    buffer,     \* self._display_buffer: row index -> byte
    before,     \* buffer as it was when the most recent call started
    log,        \* transport writes attempted by the most recent call
    op,         \* name of the most recent call
    arg,        \* its arguments
    exc,        \* "ok", or the exception it raised
    at,         \* source line of the assertion that failed (0: none)
    ret,        \* <<v>> when the call returned v, <<>> otherwise
    ncalls,     \* number of calls made so far
    device,     \* the chip's 16 display registers
    device_before   \* device as it was when the most recent call started

vars ==
    <<ready, buffer, before, log, op, arg, exc, at, ret, ncalls, device,
      device_before>>

(***************************************************************************)
(* Bounds of the model.                                                    *)
(***************************************************************************)
MaxCalls == 3
\* calls in a run of the flush-and-mutate specification SpecDevice
MaxDeviceCalls == 5

(***************************************************************************)
(* Class constants.                                                        *)
(***************************************************************************)
BLINK_OFF == 0
BLINK_2HZ == 1
BLINK_1HZ == 2
BLINK_HALFHZ == 3

_BLINK_DISPLAYON == 1
_SYSTEM_OSCILLATOR_ON == 1

_CMD_BLINK == 128
_CMD_BRIGHTNESS == 224
_CMD_SYSTEM_SETUP == 32

_MEM_ROWS == 16
_MEM_COLS == 8

(***************************************************************************)
(* Python integers: the bitwise operators the driver uses.                 *)
(***************************************************************************)
RECURSIVE Pow2(_)
Pow2(n) == IF n = 0 THEN 1 ELSE 2 * Pow2(n - 1)

\* a << n
Shl(a, n) == a * Pow2(n)

\* a >> n, for a >= 0
Shr(a, n) == a \div Pow2(n)

RECURSIVE BitAndNat(_, _)
BitAndNat(a, b) ==
    IF a = 0 \/ b = 0 THEN 0
    ELSE (a % 2) * (b % 2) + 2 * BitAndNat(a \div 2, b \div 2)

RECURSIVE BitOrNat(_, _)
BitOrNat(a, b) ==
    IF a = 0 THEN b
    ELSE IF b = 0 THEN a
    ELSE (IF a % 2 = 1 \/ b % 2 = 1 THEN 1 ELSE 0)
         + 2 * BitOrNat(a \div 2, b \div 2)

RECURSIVE Width(_)
Width(b) == IF b = 0 THEN 0 ELSE 1 + Width(b \div 2)

\* ~a: Python integers are unbounded two's complement
BitNot(a) == -a - 1

\* a & b, for b >= 0 and any a: of a negative a (infinitely many leading ones)
\* only the bits below b's width matter
BitAnd(a, b) ==
    IF a >= 0 THEN BitAndNat(a, b) ELSE BitAndNat(a % Pow2(Width(b)), b)

\* a | b, for a, b >= 0
BitOr(a, b) == BitOrNat(a, b)

(***************************************************************************)
(* Python values passed as bits: an int or a bool.  True == 1 and          *)
(* False == 0 under ==, but only a bool is True or is False.               *)
(***************************************************************************)
PyInt(n) == [t |-> "int", v |-> n]
PyBool(b) == [t |-> "bool", v |-> IF b THEN 1 ELSE 0]

IsTrue(value) == value.t = "bool" /\ value.v = 1
IsFalse(value) == value.t = "bool" /\ value.v = 0

\* value in [0, 1]
InZeroOne(value) == value.v \in {0, 1}

is_bit(e) == e.v \in {0, 1}

\* A Python list is a function on 0 .. len - 1
len(list) == Cardinality(DOMAIN list)

(***************************************************************************)
(* Outcome of a call: the exception raised ("ok": none), the line of the   *)
(* failed assertion, the buffer and the transport writes attempted.        *)
(***************************************************************************)
Outcome(e, line, buf, writes, value) ==
    [exc |-> e, at |-> line, buf |-> buf, log |-> writes, ret |-> value]

Ok(buf, writes) == Outcome("ok", 0, buf, writes, <<>>)
AssertionError(line, buf) == Outcome("AssertionError", line, buf, <<>>, <<>>)

\* transport calls as they appear in the write log; ok = FALSE: the call raised
RawWrite(byte, ok) == [kind |-> "raw", addr |-> -1, val |-> byte, ok |-> ok]
RegWrite(address, value, ok) ==
    [kind |-> "reg", addr |-> address, val |-> value, ok |-> ok]

\* a transport write raised: the exception leaves the calling method
Raised(writes) == \E i \in 1..Len(writes) : ~writes[i].ok

Done(buf, writes) ==
    Outcome(IF Raised(writes) THEN "TransportError" ELSE "ok", 0, buf, writes, <<>>)

\* the chip's registers after the first i of `writes` reached it: a register
\* write that did not raise stores its value at its address
RECURSIVE Registers(_, _, _)
Registers(dev, writes, i) ==
    IF i = 0 THEN dev
    ELSE LET w == writes[i]
             sofar == Registers(dev, writes, i - 1)
         IN  IF w.kind = "reg" /\ w.ok THEN [sofar EXCEPT ![w.addr] = w.val]
             ELSE sofar

\* index of the failing write as seen by a step that follows n writes
After(fail, n) == IF fail > n THEN fail - n ELSE 0

(***************************************************************************)
(* The driver's methods.  Each takes the buffer (self._display_buffer) and *)
(* its arguments and yields the call's Outcome.  fail is the position,     *)
(* among the transport writes the call issues, of the write that raises    *)
(* (0: the transport is healthy).                                          *)
(***************************************************************************)

\* self.write(byte) as issued by the driver
write(buf, byte, fail) == Done(buf, <<RawWrite(byte, fail # 1)>>)

\* set_brightness combining selector and level with & instead of |
set_brightness_and(buf, value, fail) ==
    IF ~(0 <= value /\ value <= 15) THEN AssertionError(87, buf)
    ELSE write(buf, BitAnd(_CMD_BRIGHTNESS, value), fail)

\* set_brightness accepting the levels 0 <= value <= 16
set_brightness_accepts_16(buf, value, fail) ==
    IF ~(0 <= value /\ value <= 16) THEN AssertionError(87, buf)
    ELSE write(buf, BitOr(_CMD_BRIGHTNESS, value), fail)

set_brightness(buf, value, fail) ==
    IF ~(0 <= value /\ value <= 15) THEN AssertionError(87, buf)
    ELSE write(buf, BitOr(_CMD_BRIGHTNESS, value), fail)

\* set_blink_rate without the display-on bit
set_blink_rate_display_off(buf, value, fail) ==
    IF value \notin {BLINK_OFF, BLINK_2HZ, BLINK_1HZ, BLINK_HALFHZ}
    THEN AssertionError(104, buf)
    ELSE write(buf, BitOr(_CMD_BLINK, Shl(value, 1)), fail)

set_blink_rate(buf, value, fail) ==
    IF value \notin {BLINK_OFF, BLINK_2HZ, BLINK_1HZ, BLINK_HALFHZ}
    THEN AssertionError(104, buf)
    ELSE write(buf,
               BitOr(BitOr(_CMD_BLINK, _BLINK_DISPLAYON), Shl(value, 1)),
               fail)

\* flush_from leaving out the rows that are 0 (writing only the lit rows)
RECURSIVE flush_from_skips_dark_rows(_, _, _)
flush_from_skips_dark_rows(buf, address, fail) ==
    IF address >= len(buf) THEN <<>>
    ELSE IF buf[address] = 0
         THEN flush_from_skips_dark_rows(buf, address + 1, fail)
         ELSE IF fail = address + 1
              THEN <<RegWrite(address, buf[address], FALSE)>>
              ELSE <<RegWrite(address, buf[address], TRUE)>>
                   \o flush_from_skips_dark_rows(buf, address + 1, fail)

\* flush_from with the registers written from the last to the first
flush_from_descending(buf, address, fail) ==
    [i \in 1 .. len(buf) - address |->
        RegWrite(len(buf) - i, buf[len(buf) - i], TRUE)]

\* flush_from with a write that raises not ending the loop
flush_from_keeps_going(buf, address, fail) ==
    [i \in 1 .. len(buf) - address |->
        RegWrite(address + i - 1, buf[address + i - 1], fail # address + i)]

\* the loop of flush from register `address` on: a write that raises ends it
RECURSIVE flush_from(_, _, _)
flush_from(buf, address, fail) ==
    IF address >= len(buf) THEN <<>>
    ELSE IF fail = address + 1
         THEN <<RegWrite(address, buf[address], FALSE)>>
         ELSE <<RegWrite(address, buf[address], TRUE)>>
              \o flush_from(buf, address + 1, fail)

\* flush that clears the software buffer once it is written out
flush_and_clear(buf, fail) ==
    Done([row \in DOMAIN buf |-> 0], flush_from(buf, 0, fail))

flush(buf, fail) == Done(buf, flush_from(buf, 0, fail))

\* self._display_buffer[row] = v: a bytearray holds only 0 .. 255
Store(buf, row, v) ==
    IF v \in 0..255 THEN Ok([buf EXCEPT ![row] = v], <<>>)
    ELSE Outcome("ValueError", 0, buf, <<>>, <<>>)

\* fill storing the bit itself instead of value * 255
fill_stores_bit(buf, value0) ==
    LET value == IF IsTrue(value0) THEN PyInt(1)
                 ELSE IF IsFalse(value0) THEN PyInt(0)
                 ELSE value0
    IN  IF ~InZeroOne(value) THEN AssertionError(130, buf)
        ELSE Ok([row \in 0 .. _MEM_ROWS - 1 |-> value.v], <<>>)

\* fill pushing the filled buffer to the device at once
fill_writes_through(buf, value0) ==
    LET value == IF IsTrue(value0) THEN PyInt(1)
                 ELSE IF IsFalse(value0) THEN PyInt(0)
                 ELSE value0
    IN  IF ~InZeroOne(value) THEN AssertionError(130, buf)
        ELSE flush([row \in 0 .. _MEM_ROWS - 1 |-> value.v * 255], 0)

fill(buf, value0) ==
    LET value == IF IsTrue(value0) THEN PyInt(1)
                 ELSE IF IsFalse(value0) THEN PyInt(0)
                 ELSE value0
    IN  IF ~InZeroOne(value) THEN AssertionError(130, buf)
        ELSE Ok([row \in 0 .. _MEM_ROWS - 1 |-> value.v * 255], <<>>)

clear(buf) == fill(buf, PyInt(0))

__getitem__(buf, row, column) ==
    IF ~(0 <= row /\ row < _MEM_ROWS) THEN AssertionError(161, buf)
    ELSE IF ~(0 <= column /\ column < _MEM_COLS) THEN AssertionError(162, buf)
    ELSE Outcome("ok", 0, buf, <<>>, <<BitAnd(Shr(buf[row], column), 1)>>)

\* the pairs __iter__ yields, in the order it yields them
__iter__(buf) ==
    Outcome("ok", 0, buf, <<>>,
            <<[k \in 1 .. _MEM_ROWS * _MEM_COLS |->
                  <<(k - 1) \div _MEM_COLS, (k - 1) % _MEM_COLS>>]>>)

\* '{:08b}'.format(n): the binary digits of n, the most significant first,
\* padded with zeros to _MEM_COLS digits
Format(n) ==
    LET digits == IF Width(n) > _MEM_COLS THEN Width(n) ELSE _MEM_COLS
    IN  [i \in 1 .. digits |->
            IF (n \div Pow2(digits - i)) % 2 = 1 THEN "1" ELSE "0"]

\* ' '.join(reversed(list(text))): the characters of the line
JoinReversed(text) ==
    [i \in 1 .. 2 * Len(text) - 1 |->
        IF i % 2 = 1 THEN text[Len(text) - (i - 1) \div 2] ELSE " "]

\* the lines of str(self), to be joined by newlines
__str__(buf) ==
    Outcome("ok", 0, buf, <<>>,
            <<[i \in 1 .. len(buf) |-> JoinReversed(Format(buf[i - 1]))]>>)

\* __setitem__ clearing with the mask of the bit instead of its complement
__setitem__clear_keeps_bit(buf, row, column, value0) ==
    LET value == IF IsTrue(value0) THEN PyInt(1)
                 ELSE IF IsFalse(value0) THEN PyInt(0)
                 ELSE value0
    IN  IF ~(0 <= row /\ row < _MEM_ROWS) THEN AssertionError(176, buf)
        ELSE IF ~(0 <= column /\ column < _MEM_COLS)
        THEN AssertionError(177, buf)
        ELSE IF ~InZeroOne(value) THEN AssertionError(178, buf)
        ELSE IF value.v = 0
        THEN Store(buf, row, BitAnd(buf[row], BitAnd(Shl(1, column), 65535)))
        ELSE Store(buf, row, BitOr(buf[row], Shl(1, column)))

\* __setitem__ setting with = instead of |=
__setitem__set_overwrites_row(buf, row, column, value0) ==
    LET value == IF IsTrue(value0) THEN PyInt(1)
                 ELSE IF IsFalse(value0) THEN PyInt(0)
                 ELSE value0
    IN  IF ~(0 <= row /\ row < _MEM_ROWS) THEN AssertionError(176, buf)
        ELSE IF ~(0 <= column /\ column < _MEM_COLS)
        THEN AssertionError(177, buf)
        ELSE IF ~InZeroOne(value) THEN AssertionError(178, buf)
        ELSE IF value.v = 0
        THEN Store(buf, row,
                   BitAnd(buf[row], BitAnd(BitNot(Shl(1, column)), 65535)))
        ELSE Store(buf, row, Shl(1, column))

\* __setitem__ flipping the bit (^=) where it should set it (|=)
__setitem__set_toggles(buf, row, column, value0) ==
    LET value == IF IsTrue(value0) THEN PyInt(1)
                 ELSE IF IsFalse(value0) THEN PyInt(0)
                 ELSE value0
    IN  IF ~(0 <= row /\ row < _MEM_ROWS) THEN AssertionError(176, buf)
        ELSE IF ~(0 <= column /\ column < _MEM_COLS)
        THEN AssertionError(177, buf)
        ELSE IF ~InZeroOne(value) THEN AssertionError(178, buf)
        ELSE IF value.v = 0
        THEN Store(buf, row,
                   BitAnd(buf[row], BitAnd(BitNot(Shl(1, column)), 65535)))
        ELSE Store(buf, row,
                   BitOr(buf[row], Shl(1, column))
                   - BitAnd(buf[row], Shl(1, column)))

\* __setitem__ with the column checked by 0 <= column <= _MEM_COLS
__setitem__column_off_by_one(buf, row, column, value0) ==
    LET value == IF IsTrue(value0) THEN PyInt(1)
                 ELSE IF IsFalse(value0) THEN PyInt(0)
                 ELSE value0
    IN  IF ~(0 <= row /\ row < _MEM_ROWS) THEN AssertionError(176, buf)
        ELSE IF ~(0 <= column /\ column <= _MEM_COLS)
        THEN AssertionError(177, buf)
        ELSE IF ~InZeroOne(value) THEN AssertionError(178, buf)
        ELSE IF value.v = 0
        THEN Store(buf, row,
                   BitAnd(buf[row], BitAnd(BitNot(Shl(1, column)), 65535)))
        ELSE Store(buf, row, BitOr(buf[row], Shl(1, column)))

__setitem__(buf, row, column, value0) ==
    LET value == IF IsTrue(value0) THEN PyInt(1)
                 ELSE IF IsFalse(value0) THEN PyInt(0)
                 ELSE value0
    IN  IF ~(0 <= row /\ row < _MEM_ROWS) THEN AssertionError(176, buf)
        ELSE IF ~(0 <= column /\ column < _MEM_COLS)
        THEN AssertionError(177, buf)
        ELSE IF ~InZeroOne(value) THEN AssertionError(178, buf)
        ELSE IF value.v = 0
        THEN Store(buf, row,
                   BitAnd(buf[row], BitAnd(BitNot(Shl(1, column)), 65535)))
        ELSE Store(buf, row, BitOr(buf[row], Shl(1, column)))

\* __delitem__ clearing the bit instead of refusing
__delitem__clears_bit(buf, row, column) ==
    __setitem__(buf, row, column, PyInt(0))

__delitem__(buf, row, column) == Outcome("RuntimeError", 0, buf, <<>>, <<>>)

\* check_rows without the check that every element is a bit
RECURSIVE check_rows_lengths_only(_, _)
check_rows_lengths_only(bitmap, i) ==
    IF i >= len(bitmap) THEN 0
    ELSE IF len(bitmap[i]) # _MEM_COLS THEN 151
    ELSE check_rows_lengths_only(bitmap, i + 1)

\* the consistency check of write_bitmap over rows i, i+1, ...: the line of
\* the first assertion that fails, 0 when none does
RECURSIVE check_rows(_, _)
check_rows(bitmap, i) ==
    IF i >= len(bitmap) THEN 0
    ELSE IF len(bitmap[i]) # _MEM_COLS THEN 151
    ELSE IF \E c \in DOMAIN bitmap[i] : ~is_bit(bitmap[i][c]) THEN 152
    ELSE check_rows(bitmap, i + 1)

check_bitmap(bitmap) ==
    IF len(bitmap) # _MEM_ROWS THEN 149 ELSE check_rows(bitmap, 0)

\* copy_row writing only the cells that are set in the bitmap
RECURSIVE copy_row_only_ones(_, _, _, _)
copy_row_only_ones(buf, bitmap, row, column) ==
    IF column >= _MEM_COLS THEN Ok(buf, <<>>)
    ELSE LET o == IF bitmap[row][column].v = 0 THEN Ok(buf, <<>>)
                  ELSE __setitem__(buf, row, column, bitmap[row][column])
         IN  IF o.exc # "ok" THEN o
             ELSE copy_row_only_ones(o.buf, bitmap, row, column + 1)

\* copy_row taking the bits of a row from the last column to the first
RECURSIVE copy_row_mirrored(_, _, _, _)
copy_row_mirrored(buf, bitmap, row, column) ==
    IF column >= _MEM_COLS THEN Ok(buf, <<>>)
    ELSE LET o == __setitem__(buf, row, column,
                              bitmap[row][_MEM_COLS - 1 - column])
         IN  IF o.exc # "ok" THEN o
             ELSE copy_row_mirrored(o.buf, bitmap, row, column + 1)

\* the inner copy loop of write_bitmap: cells column, column + 1, ... of row
RECURSIVE copy_row(_, _, _, _)
copy_row(buf, bitmap, row, column) ==
    IF column >= _MEM_COLS THEN Ok(buf, <<>>)
    ELSE LET o == __setitem__(buf, row, column, bitmap[row][column])
         IN  IF o.exc # "ok" THEN o
             ELSE copy_row(o.buf, bitmap, row, column + 1)

\* the outer copy loop of write_bitmap: rows row, row + 1, ...
RECURSIVE copy_from(_, _, _)
copy_from(buf, bitmap, row) ==
    IF row >= _MEM_ROWS THEN Ok(buf, <<>>)
    ELSE LET o == copy_row(buf, bitmap, row, 0)
         IN  IF o.exc # "ok" THEN o ELSE copy_from(o.buf, bitmap, row + 1)

write_bitmap(buf, bitmap) ==
    LET line == check_bitmap(bitmap)
    IN  IF line # 0 THEN AssertionError(line, buf)
        ELSE copy_from(buf, bitmap, 0)

\* o1 and then, unless it raised, o2
Then(o1, o2) ==
    IF o1.exc # "ok" THEN o1 ELSE [o2 EXCEPT !.log = o1.log \o o2.log]

\* __init__ allocating one buffer row per column (_MEM_COLS rows)
__init__short_buffer(fail) ==
    LET buf == [row \in 0 .. _MEM_COLS - 1 |-> 0]
        setup == write(buf, BitOr(_CMD_SYSTEM_SETUP, _SYSTEM_OSCILLATOR_ON),
                       fail)
        flushed == Then(setup, flush(buf, After(fail, 1)))
        blink == Then(flushed,
                      set_blink_rate(buf, BLINK_OFF, After(fail, 1 + _MEM_COLS)))
    IN  Then(blink, set_brightness(buf, 15, After(fail, 2 + _MEM_COLS)))

\* __init__ with the brightness set before the blink rate
__init__brightness_first(fail) ==
    LET buf == [row \in 0 .. _MEM_ROWS - 1 |-> 0]
        setup == write(buf, BitOr(_CMD_SYSTEM_SETUP, _SYSTEM_OSCILLATOR_ON),
                       fail)
        flushed == Then(setup, flush(buf, After(fail, 1)))
        bright == Then(flushed,
                       set_brightness(buf, 15, After(fail, 1 + _MEM_ROWS)))
    IN  Then(bright, set_blink_rate(buf, BLINK_OFF, After(fail, 2 + _MEM_ROWS)))

\* __init__ going on to the blink rate and the brightness after a flush that
\* raised
__init__ignores_flush(fail) ==
    LET buf == [row \in 0 .. _MEM_ROWS - 1 |-> 0]
        setup == write(buf, BitOr(_CMD_SYSTEM_SETUP, _SYSTEM_OSCILLATOR_ON),
                       fail)
        flushed == Then(setup, [flush(buf, After(fail, 1)) EXCEPT !.exc = "ok"])
        blink == Then(flushed, set_blink_rate(buf, BLINK_OFF, 0))
    IN  Then(blink, set_brightness(buf, 15, 0))

__init__(fail) ==
    LET buf == [row \in 0 .. _MEM_ROWS - 1 |-> 0]
        setup == write(buf, BitOr(_CMD_SYSTEM_SETUP, _SYSTEM_OSCILLATOR_ON),
                       fail)
        flushed == Then(setup, flush(buf, After(fail, 1)))
        blink == Then(flushed,
                      set_blink_rate(buf, BLINK_OFF, After(fail, 1 + _MEM_ROWS)))
    IN  Then(blink, set_brightness(buf, 15, After(fail, 2 + _MEM_ROWS)))

(***************************************************************************)
(* Arguments the calls are made with.                                      *)
(***************************************************************************)
\* cells of the first and the last row, every column
Cells == {0, _MEM_ROWS - 1} \X (0 .. _MEM_COLS - 1)
Corners == {<<0, 0>>, <<_MEM_ROWS - 1, _MEM_COLS - 1>>}
\* coordinates outside the matrix
Outside ==
    {<<-1, 0>>, <<_MEM_ROWS, 0>>, <<0, -1>>, <<0, _MEM_COLS>>,
     <<-1, _MEM_COLS>>, <<_MEM_ROWS, -1>>, <<_MEM_ROWS + 1, 3>>}
Bits == {PyInt(0), PyInt(1)}
Bools == {PyBool(FALSE), PyBool(TRUE)}
NotBits == {PyInt(-1), PyInt(2)}
BitValues == Bits \cup Bools \cup NotBits

GetArgs == Cells \cup Outside
DeleteArgs == Corners \cup {<<-1, 0>>, <<_MEM_ROWS, _MEM_COLS>>}
\* <<value, fail>>: every level and its neighbours on a healthy transport,
\* the extreme levels on a failing one
BrightnessArgs == ((-1 .. 16) \X {0}) \cup ({0, 15} \X {1})
BlinkArgs ==
    ((BLINK_OFF - 1 .. BLINK_HALFHZ + 1) \X {0})
    \cup ({BLINK_OFF, BLINK_1HZ} \X {1})
SetArgs ==
    (Cells \X Bits) \cup (Corners \X (Bools \cup NotBits))
    \cup (Outside \X {PyInt(1), PyInt(2)})

\* the writes a call may see fail: none (0), or the k-th of at most n
Failures(n) == 0 .. n

GoodBitmaps == {"zeros", "ones", "checker", "mixed"}
BadBitmaps ==
    {"rows15", "rows17", "short_last", "long_mid", "two_last", "neg_first",
     "two_then_short", "short_then_two", "rows15_two", "short_with_two"}
BitmapNames == GoodBitmaps \cup BadBitmaps

\* len(bitmap)
BitmapRows(name) ==
    CASE name \in {"rows15", "rows15_two"} -> _MEM_ROWS - 1
      [] name = "rows17" -> _MEM_ROWS + 1
      [] OTHER -> _MEM_ROWS

\* len(bitmap[r])
BitmapRowLen(name, r) ==
    CASE name = "short_last" /\ r = _MEM_ROWS - 1 -> _MEM_COLS - 1
      [] name = "long_mid" /\ r = 8 -> _MEM_COLS + 1
      [] name = "two_then_short" /\ r = 1 -> _MEM_COLS - 1
      [] name = "short_then_two" /\ r = 0 -> _MEM_COLS - 1
      [] name = "short_with_two" /\ r = 3 -> _MEM_COLS - 1
      [] OTHER -> _MEM_COLS

\* bitmap[r][c]
BitmapCell(name, r, c) ==
    CASE name = "zeros" -> PyInt(0)
      [] name = "ones" -> PyBool(TRUE)
      [] name \in {"checker", "long_mid"} -> PyInt((r + c) % 2)
      [] name = "mixed" ->
            LET b == Shr(37 * r + 11, c) % 2
            IN  IF (r + c) % 3 = 0 THEN PyBool(b = 1) ELSE PyInt(b)
      [] name = "two_last" /\ r = _MEM_ROWS - 1 /\ c = _MEM_COLS - 1 -> PyInt(2)
      [] name = "neg_first" /\ r = 0 /\ c = 0 -> PyInt(-1)
      [] name = "two_then_short" /\ r = 0 /\ c = 0 -> PyInt(2)
      [] name = "short_then_two" /\ r = 1 /\ c = 0 -> PyInt(2)
      [] name = "rows15_two" /\ r = 0 /\ c = 0 -> PyInt(2)
      [] name = "short_with_two" /\ r = 3 /\ c = 2 -> PyInt(2)
      [] OTHER -> PyInt(1)

\* a list of lists of bits
Bitmap(name) ==
    [r \in 0 .. BitmapRows(name) - 1 |->
        [c \in 0 .. BitmapRowLen(name, r) - 1 |-> BitmapCell(name, r, c)]]

\* what the chip's display registers may hold before the driver first writes
\* them
PowerOnRegisters ==
    {[a \in 0 .. _MEM_ROWS - 1 |-> 0], [a \in 0 .. _MEM_ROWS - 1 |-> 170 + a]}

\* the bitmaps by name
Bitmaps == [name \in BitmapNames |-> Bitmap(name)]

(***************************************************************************)
(* The state machine: one action per call on the driver.                   *)
(***************************************************************************)
Init ==
    /\ ready = FALSE
    /\ buffer = [row \in 0 .. _MEM_ROWS - 1 |-> 0]
    /\ before = buffer
    /\ log = <<>>
    /\ op = "none"
    /\ arg = [none |-> 0]
    /\ exc = "ok"
    /\ at = 0
    /\ ret = <<>>
    /\ ncalls = 0
    /\ device \in PowerOnRegisters
    /\ device_before = device

\* the call `name` with arguments `a` ended with outcome o
Record(name, a, o) ==
    /\ before' = buffer
    /\ buffer' = o.buf
    /\ log' = o.log
    /\ op' = name
    /\ arg' = a
    /\ exc' = o.exc
    /\ at' = o.at
    /\ ret' = o.ret
    /\ ncalls' = ncalls + 1
    /\ device_before' = device
    /\ device' = Registers(device, o.log, Len(o.log))

Construct ==
    /\ ~ready
    /\ ncalls < MaxCalls
    /\ \E fail \in Failures(_MEM_ROWS + 3) :
          LET o == __init__(fail)
          IN  /\ Record("__init__", [fail |-> fail], o)
              /\ ready' = (o.exc = "ok")

Call(name, a, o) ==
    /\ ready
    /\ ncalls < MaxCalls
    /\ Record(name, a, o)
    /\ UNCHANGED ready

Flush ==
    \E fail \in Failures(_MEM_ROWS) :
        Call("flush", [fail |-> fail], flush(buffer, fail))

Fill ==
    \E value \in BitValues :
        Call("fill", [value |-> value], fill(buffer, value))

Clear == Call("clear", [none |-> 0], clear(buffer))

Get ==
    \E cell \in GetArgs :
        Call("get", [row |-> cell[1], column |-> cell[2]],
             __getitem__(buffer, cell[1], cell[2]))

Set ==
    \E a \in SetArgs :
        Call("set", [row |-> a[1][1], column |-> a[1][2], value |-> a[2]],
             __setitem__(buffer, a[1][1], a[1][2], a[2]))

WriteBitmap ==
    \E name \in BitmapNames :
        Call("write_bitmap", [bitmap |-> name],
             write_bitmap(buffer, Bitmaps[name]))

SetBrightness ==
    \E a \in BrightnessArgs :
        Call("set_brightness", [value |-> a[1], fail |-> a[2]],
             set_brightness(buffer, a[1], a[2]))

SetBlinkRate ==
    \E a \in BlinkArgs :
        Call("set_blink_rate", [value |-> a[1], fail |-> a[2]],
             set_blink_rate(buffer, a[1], a[2]))

Delete ==
    \E cell \in DeleteArgs :
        Call("delete", [row |-> cell[1], column |-> cell[2]],
             __delitem__(buffer, cell[1], cell[2]))

Iterate == Call("iterate", [none |-> 0], __iter__(buffer))

RenderText == Call("render_text", [none |-> 0], __str__(buffer))

Next ==
    \/ Construct
    \/ Flush
    \/ Fill
    \/ Clear
    \/ Get
    \/ Set
    \/ WriteBitmap
    \/ SetBrightness
    \/ SetBlinkRate
    \/ Delete
    \/ Iterate
    \/ RenderText

Spec == Init /\ [][Next]_vars

(***************************************************************************)
(* Longer runs of fewer calls: the buffer is mutated and flushed several   *)
(* times over, so that a flush finds the registers holding what earlier    *)
(* flushes, complete or cut short, left in them.                           *)
(***************************************************************************)
DeviceCall(name, a, o) ==
    /\ ready
    /\ ncalls < MaxDeviceCalls
    /\ Record(name, a, o)
    /\ UNCHANGED ready

DeviceFlush ==
    \E fail \in Failures(_MEM_ROWS) :
        DeviceCall("flush", [fail |-> fail], flush(buffer, fail))

DeviceFill ==
    DeviceCall("fill", [value |-> PyInt(1)], fill(buffer, PyInt(1)))

DeviceClear == DeviceCall("clear", [none |-> 0], clear(buffer))

DeviceSet ==
    \E key \in {<<15, 7>>, <<_MEM_ROWS, 0>>} :
        DeviceCall("set",
                   [row |-> key[1], column |-> key[2], value |-> PyInt(0)],
                   __setitem__(buffer, key[1], key[2], PyInt(0)))

DeviceWriteBitmap ==
    DeviceCall("write_bitmap", [bitmap |-> "mixed"],
               write_bitmap(buffer, Bitmaps["mixed"]))

NextDevice ==
    \/ Construct
    \/ DeviceFlush
    \/ DeviceFill
    \/ DeviceClear
    \/ DeviceSet
    \/ DeviceWriteBitmap

SpecDevice == Init /\ [][NextDevice]_vars

TypeOK ==
    /\ ready \in BOOLEAN
    /\ DOMAIN buffer = 0 .. _MEM_ROWS - 1
    /\ ncalls \in 0 .. MaxCalls

(***************************************************************************)
(* The error taxonomy of the driver's contract, read off the exception a   *)
(* call raised and, for an AssertionError, the assertion that failed.      *)
(***************************************************************************)
ErrorKind ==
    CASE exc = "ok" -> "none"
      [] exc = "AssertionError" /\ at \in {161, 162, 176, 177} -> "OutOfRange"
      [] exc = "AssertionError" /\ at \in {149, 151} -> "ShapeMismatch"
      [] exc = "AssertionError" /\ at \in {87, 104, 130, 152, 178} ->
            "InvalidArgument"
      [] exc = "RuntimeError" -> "UnsupportedOperation"
      [] exc = "TransportError" /\ op = "__init__" -> "InitializationError"
      [] exc = "TransportError" /\ op # "__init__" -> "TransportError"
      [] OTHER -> exc

\* the transport writes of a flush of buffer buf on a healthy transport
FullFlush(buf) == [i \in 1 .. _MEM_ROWS |-> RegWrite(i - 1, buf[i - 1], TRUE)]

\* the transport writes of a construction on a healthy transport:
\* 0x21, registers 0 .. 15 zeroed, 0x81, 0xEF
FullInit ==
    <<RawWrite(33, TRUE)>> \o FullFlush([row \in 0 .. _MEM_ROWS - 1 |-> 0])
    \o <<RawWrite(129, TRUE), RawWrite(239, TRUE)>>

\* writes is the sequence `full` cut at its k-th write, which raised
CutAt(writes, full, k) ==
    /\ Len(writes) = k
    /\ \A i \in 1 .. k - 1 : writes[i] = full[i]
    /\ writes[k] = [full[k] EXCEPT !.ok = FALSE]

(***************************************************************************)
(* C1.  flush() on a healthy transport issues exactly 16 register writes   *)
(* and no raw command write, to addresses 0, 1, ..., 15 in ascending       *)
(* order, and the value written to address a is buffer row a as it was     *)
(* when flush was called.                                                  *)
(***************************************************************************)
C1_FlushWritesEveryRowInOrder ==
    (op = "flush" /\ arg.fail = 0) =>
        /\ exc = "ok"
        /\ Len(log) = 16
        /\ \A i \in 1 .. 16 :
              /\ log[i].kind = "reg"
              /\ log[i].addr = i - 1
              /\ log[i].val = before[i - 1]
              /\ log[i].ok

C1_Witness ==
    /\ op = "flush"
    /\ arg.fail = 0
    /\ exc = "ok"
    /\ Len(log) = 16
    /\ before[0] # before[1]
    /\ before[1] # 0
    /\ before[15] # before[0]

(***************************************************************************)
(* C2.  If the k-th register write of a flush (1 <= k <= 16) fails, flush  *)
(* surfaces a TransportError, the failing write is not retried and no      *)
(* register write for an address >= k is attempted: the transport sees     *)
(* exactly k write attempts, to addresses 0 .. k-1.                        *)
(***************************************************************************)
C2_FlushStopsAtFailedWrite ==
    (op = "flush" /\ arg.fail \in 1 .. 16) =>
        /\ ErrorKind = "TransportError"
        /\ Len(log) = arg.fail
        /\ \A i \in 1 .. Len(log) :
              /\ log[i].kind = "reg"
              /\ log[i].addr = i - 1
              /\ log[i].val = before[i - 1]
              /\ log[i].ok = (i < arg.fail)

C2_Witness ==
    /\ op = "flush"
    /\ arg.fail = 5
    /\ exc = "TransportError"
    /\ Len(log) = 5
    /\ ~log[5].ok
    /\ before[4] # 0

(***************************************************************************)
(* C3.  flush() never modifies the in-memory display buffer: the buffer    *)
(* after flush equals the buffer before it, whether flush succeeds or      *)
(* fails after any number of successful register writes.                   *)
(***************************************************************************)
C3_FlushLeavesBufferAlone ==
    op = "flush" => buffer = before

C3_Witness ==
    /\ op = "flush"
    /\ exc = "TransportError"
    /\ Len(log) > 3
    /\ \E row \in DOMAIN buffer : buffer[row] # 0

(***************************************************************************)
(* C4.  Constructing the device on a healthy transport produces exactly    *)
(* this write sequence: a raw write of 0x21 (system setup, oscillator on), *)
(* 16 register writes to addresses 0 .. 15 of value 0, a raw write of 0x81 *)
(* (blink off), a raw write of 0xEF (brightness 15); afterwards every      *)
(* buffer row is 0.                                                        *)
(***************************************************************************)
C4_InitWriteSequence ==
    (op = "__init__" /\ arg.fail = 0) =>
        /\ exc = "ok"
        /\ ready
        /\ log = FullInit
        /\ \A row \in 0 .. 15 : buffer[row] = 0

C4_Witness ==
    /\ op = "__init__"
    /\ arg.fail = 0
    /\ ready
    /\ Len(log) = 19
    /\ log[19].val = 239

(***************************************************************************)
(* C5.  If any transport write issued during construction fails (the       *)
(* system-setup write, one of the 16 flush writes, the blink write or the  *)
(* brightness write), construction aborts without issuing any later write  *)
(* of the initialization sequence, the device is never ready, and the      *)
(* failure is surfaced to the caller as an InitializationError.            *)
(***************************************************************************)
C5_InitAbortsOnFailedWrite ==
    (op = "__init__" /\ arg.fail \in 1 .. 19) =>
        /\ ErrorKind = "InitializationError"
        /\ ~ready
        /\ CutAt(log, FullInit, arg.fail)

C5_Witness ==
    /\ op = "__init__"
    /\ arg.fail = 7
    /\ exc = "TransportError"
    /\ ~ready
    /\ Len(log) = 7

\* bit c of the non-negative integer n
Bit(n, c) == (n \div Pow2(c)) % 2

InRange(row, column) ==
    /\ 0 <= row /\ row < 16
    /\ 0 <= column /\ column < 8

IsBitValue(value) == value.v \in {0, 1}

(***************************************************************************)
(* C6.  For every reachable buffer, every row in [0,16), every column in   *)
(* [0,8) and every bit b: set(row, column, b) followed immediately by      *)
(* get(row, column) returns b.                                             *)
(***************************************************************************)
C6_SetThenGet ==
    (op = "set" /\ InRange(arg.row, arg.column) /\ IsBitValue(arg.value)) =>
        /\ exc = "ok"
        /\ LET got == __getitem__(buffer, arg.row, arg.column)
           IN  got.exc = "ok" /\ got.ret = <<arg.value.v>>

C6_Witness ==
    /\ op = "set"
    /\ exc = "ok"
    /\ arg.value = PyInt(0)
    /\ arg.column = 7
    /\ before[arg.row] = 255
    /\ __getitem__(buffer, arg.row, arg.column).ret = <<0>>

(***************************************************************************)
(* C7.  A successful set(row, column, b) changes at most the bit at        *)
(* (row, column): every other bit of that row and every bit of the 15      *)
(* other rows has the same value after the call as before it.              *)
(***************************************************************************)
C7_SetChangesOneBit ==
    (op = "set" /\ exc = "ok") =>
        /\ \A r \in 0 .. 15 : r # arg.row => buffer[r] = before[r]
        /\ \A c \in 0 .. 15 :
              c # arg.column =>
                  Bit(buffer[arg.row], c) = Bit(before[arg.row], c)

C7_Witness ==
    /\ op = "set"
    /\ exc = "ok"
    /\ buffer # before
    /\ arg.value.v = 1
    /\ before[arg.row] # 0
    /\ \E r \in 0 .. 15 : r # arg.row /\ before[r] # 0

(***************************************************************************)
(* C8.  For every valid 16x8 bit matrix M and every reachable prior        *)
(* buffer, load_bitmap(M) followed by get(r, c) for every r in [0,16) and  *)
(* c in [0,8) returns M[r][c]: nothing of the prior contents survives.     *)
(***************************************************************************)
C8_BitmapRoundTrip ==
    (op = "write_bitmap" /\ arg.bitmap \in GoodBitmaps) =>
        /\ exc = "ok"
        /\ \A r \in 0 .. 15, c \in 0 .. 7 :
              LET got == __getitem__(buffer, r, c)
              IN  got.exc = "ok" /\ got.ret = <<Bitmaps[arg.bitmap][r][c].v>>

C8_Witness ==
    /\ op = "write_bitmap"
    /\ exc = "ok"
    /\ arg.bitmap = "mixed"
    /\ \A r \in 0 .. 15 : before[r] = 255
    /\ buffer[0] = 11

(***************************************************************************)
(* C9.  load_bitmap with a matrix whose row count is not 16 or which has a *)
(* row whose length is not 8 fails with ShapeMismatch, and with a matrix   *)
(* holding an element that is not a bit fails with InvalidArgument (a      *)
(* matrix with both defects fails with one of the two); in every such      *)
(* failure the buffer is exactly as it was before the call, also when the  *)
(* malformed row or element comes after well-formed ones.                  *)
(***************************************************************************)
BadShape(bitmap) ==
    \/ len(bitmap) # 16
    \/ \E r \in DOMAIN bitmap : len(bitmap[r]) # 8

HasNonBit(bitmap) ==
    \E r \in DOMAIN bitmap : \E c \in DOMAIN bitmap[r] :
        ~IsBitValue(bitmap[r][c])

C11_BrightnessCommand ==
    (op = "set_brightness" /\ arg.value \in 0 .. 15) =>
        /\ Len(log) = 1
        /\ log[1].kind = "raw"
        /\ log[1].val = 224 + arg.value
        /\ arg.fail = 0 => exc = "ok"
        /\ buffer = before

C11_Witness ==
    /\ op = "set_brightness"
    /\ arg.value = 9
    /\ exc = "ok"
    /\ log = <<RawWrite(233, TRUE)>>
    /\ buffer[0] = 255

(***************************************************************************)
(* C12.  For every blink mode m in {BLINK_OFF = 0, BLINK_2HZ = 1,          *)
(* BLINK_1HZ = 2, BLINK_HALFHZ = 3}, set_blink_rate(m) dispatches exactly  *)
(* one raw command write whose byte is 0x80 | 0x01 | (m << 1), that is     *)
(* 0x81, 0x83, 0x85, 0x87: the display-on bit (bit 0) is set in every      *)
(* blink command.                                                          *)
(***************************************************************************)
C12_BlinkCommand ==
    (op = "set_blink_rate" /\ arg.value \in 0 .. 3) =>
        /\ Len(log) = 1
        /\ log[1].kind = "raw"
        /\ log[1].val = <<129, 131, 133, 135>>[arg.value + 1]
        /\ log[1].val % 2 = 1
        /\ arg.fail = 0 => exc = "ok"

C12_Witness ==
    /\ op = "set_blink_rate"
    /\ arg.value = BLINK_1HZ
    /\ exc = "ok"
    /\ log = <<RawWrite(133, TRUE)>>

(***************************************************************************)
(* C13.  set_brightness with a level outside [0,15] (16, -1) and           *)
(* set_blink_rate with a value outside the four modes fail with            *)
(* InvalidArgument; the failing call issues no transport write, raw or     *)
(* register, and leaves the buffer unchanged.                              *)
(***************************************************************************)
C13_BadLevelOrModeRejected ==
    /\ (op = "set_brightness" /\ arg.value \notin 0 .. 15) =>
          ErrorKind = "InvalidArgument" /\ log = <<>> /\ buffer = before
    /\ (op = "set_blink_rate" /\ arg.value \notin {0, 1, 2, 3}) =>
          ErrorKind = "InvalidArgument" /\ log = <<>> /\ buffer = before

C13_Witness ==
    /\ op = "set_brightness"
    /\ arg.value = 16
    /\ exc = "AssertionError"
    /\ at = 87
    /\ log = <<>>
    /\ buffer[0] = 255

(***************************************************************************)
(* C14.  From every reachable buffer, after fill(1) get(r, c) returns 1    *)
(* for every r in [0,16) and c in [0,8) (every row value is 0xFF), and     *)
(* after clear() or fill(0) get(r, c) returns 0 for every such (r, c)      *)
(* (every row value is 0x00).                                              *)
(***************************************************************************)
AllCellsRead(buf, bit) ==
    \A r \in 0 .. 15, c \in 0 .. 7 :
        LET got == __getitem__(buf, r, c)
        IN  got.exc = "ok" /\ got.ret = <<bit>>

C14_FillAndClear ==
    /\ (op = "fill" /\ IsBitValue(arg.value)) =>
          /\ exc = "ok"
          /\ \A r \in 0 .. 15 : buffer[r] = 255 * arg.value.v
          /\ AllCellsRead(buffer, arg.value.v)
    /\ op = "clear" =>
          /\ exc = "ok"
          /\ \A r \in 0 .. 15 : buffer[r] = 0
          /\ AllCellsRead(buffer, 0)

C14_Witness ==
    /\ op = "fill"
    /\ arg.value = PyInt(1)
    /\ exc = "ok"
    /\ before[0] = 11
    /\ buffer[0] = 255
    /\ buffer[15] = 255

(***************************************************************************)
(* C15.  delete on any coordinate, valid or not, always fails with         *)
(* UnsupportedOperation, and the buffer after the failed call equals the   *)
(* buffer before it.                                                       *)
(***************************************************************************)
C15_DeleteUnsupported ==
    op = "delete" =>
        /\ ErrorKind = "UnsupportedOperation"
        /\ buffer = before

C15_Witness ==
    /\ op = "delete"
    /\ arg.row = 15
    /\ arg.column = 7
    /\ exc = "RuntimeError"
    /\ buffer[15] = 255

(***************************************************************************)
(* C16.  The buffer operations get, set, fill, clear, load_bitmap, delete, *)
(* iterate and render_text never issue a transport write, whether they     *)
(* succeed or fail: after construction the transport write log grows only  *)
(* during flush, set_brightness and set_blink_rate, and the device         *)
(* registers change only as a result of flush.                             *)
(***************************************************************************)
BufferOps ==
    {"get", "set", "fill", "clear", "write_bitmap", "delete", "iterate",
     "render_text"}

C16_OnlyFlushAndSettersWrite ==
    /\ op \in BufferOps => log = <<>>
    /\ (op # "__init__" /\ log # <<>>) =>
          op \in {"flush", "set_brightness", "set_blink_rate"}
    /\ (op # "__init__" /\ device # device_before) => op = "flush"

C16_Witness ==
    /\ op = "set"
    /\ exc = "ok"
    /\ log = <<>>
    /\ buffer # before
    /\ device = device_before
    /\ device # buffer

Orders == {"row_major", "column_major", "reversed", "strided"}

\* the k-th cell (k in 0 .. 127) of an order of the 128 cells
CellAt(order, k) ==
    CASE order = "row_major" -> <<k \div 8, k % 8>>
      [] order = "column_major" -> <<k % 16, k \div 16>>
      [] order = "reversed" -> <<(127 - k) \div 8, (127 - k) % 8>>
      [] order = "strided" -> <<((37 * k) % 128) \div 8, ((37 * k) % 128) % 8>>

\* the outcome of set(r, c, M[r][c]) for the k-th to the last-th cell, a
\* call that raises ending the sequence
RECURSIVE SetCells(_, _, _, _, _)
SetCells(buf, bitmap, order, k, last) ==
    IF k > last THEN Ok(buf, <<>>)
    ELSE LET cell == CellAt(order, k)
             o == __setitem__(buf, cell[1], cell[2], bitmap[cell[1]][cell[2]])
         IN  IF o.exc # "ok" THEN o
             ELSE SetCells(o.buf, bitmap, order, k + 1, last)

\* ... for all 128 cells, eight at a time from the chunk-th eight on
RECURSIVE SetAll(_, _, _, _)
SetAll(buf, bitmap, order, chunk) ==
    IF chunk >= 16 THEN Ok(buf, <<>>)
    ELSE LET o == SetCells(buf, bitmap, order, 8 * chunk, 8 * chunk + 7)
         IN  IF o.exc # "ok" THEN o
             ELSE SetAll(o.buf, bitmap, order, chunk + 1)

\* every order visits each of the 128 cells
OrdersArePermutations ==
    \A order \in Orders :
        {CellAt(order, k) : k \in 0 .. 127} = (0 .. 15) \X (0 .. 7)

C18_BitmapIsSetsInAnyOrder ==
    /\ (op = "write_bitmap" /\ arg.bitmap \in GoodBitmaps) =>
          /\ exc = "ok"
          /\ OrdersArePermutations
          /\ \A order \in Orders :
                LET sets == SetAll(before, Bitmaps[arg.bitmap], order, 0)
                IN  sets.exc = "ok" /\ buffer = sets.buf
    /\ (op = "set" /\ exc = "ok") =>
          \A r \in {arg.row, 7}, c \in 0 .. 7, bit \in Bits :
              <<r, c>> # <<arg.row, arg.column>> =>
                  __setitem__(buffer, r, c, bit).buf =
                      __setitem__(__setitem__(before, r, c, bit).buf,
                                  arg.row, arg.column, arg.value).buf

C18_Witness ==
    /\ op = "write_bitmap"
    /\ exc = "ok"
    /\ arg.bitmap = "checker"
    /\ before[0] = 11
    /\ buffer[0] = 170
    /\ buffer = SetAll(before, Bitmaps["checker"], "strided", 0).buf

(***************************************************************************)
(* C19.  Every buffer-mutating operation is idempotent: for every          *)
(* reachable buffer and every valid argument, applying set(row, column,    *)
(* b), fill(b), clear() or load_bitmap(M) twice in succession yields the   *)
(* same buffer as applying it once.                                        *)
(***************************************************************************)
C19_MutatorsIdempotent ==
    /\ (op = "set" /\ exc = "ok") =>
          LET again == __setitem__(buffer, arg.row, arg.column, arg.value)
          IN  again.exc = "ok" /\ again.buf = buffer
    /\ (op = "fill" /\ exc = "ok") =>
          LET again == fill(buffer, arg.value)
          IN  again.exc = "ok" /\ again.buf = buffer
    /\ (op = "clear" /\ exc = "ok") =>
          LET again == clear(buffer)
          IN  again.exc = "ok" /\ again.buf = buffer
    /\ (op = "write_bitmap" /\ exc = "ok") =>
          LET again == write_bitmap(buffer, Bitmaps[arg.bitmap])
          IN  again.exc = "ok" /\ again.buf = buffer

C19_Witness ==
    /\ op = "set"
    /\ exc = "ok"
    /\ arg.value = PyBool(TRUE)
    /\ buffer # before
    /\ before[arg.row] # 0
    /\ __setitem__(buffer, arg.row, arg.column, arg.value).buf = buffer

(***************************************************************************)
(* C20.  With the device modelled as 16 registers updated by each          *)
(* successful register write: when a flush ends after n successful         *)
(* register writes (n = 16 on success, n = k - 1 when write k fails),      *)
(* registers 0 .. n-1 equal buffer rows 0 .. n-1 and registers n .. 15     *)
(* still hold the values they had before that flush; after a successful    *)
(* flush all 16 registers equal the buffer, and they stay equal until the  *)
(* next successful buffer mutation (registers that equalled the buffer     *)
(* before a call equal it after the call unless the call is a set, fill,   *)
(* clear or write_bitmap that returned normally).                          *)
(***************************************************************************)
Mutated == op \in {"set", "fill", "clear", "write_bitmap"} /\ exc = "ok"

Flushed == IF arg.fail = 0 THEN 16 ELSE arg.fail - 1

C20_RegistersFollowFlush ==
    /\ op = "flush" =>
          /\ \A a \in 0 .. 15 :
                device[a] = IF a < Flushed THEN buffer[a] ELSE device_before[a]
          /\ exc = "ok" => device = buffer
    /\ (ready /\ device_before = before /\ ~Mutated) => device = buffer

C20_Witness ==
    /\ op = "flush"
    /\ arg.fail = 9
    /\ exc = "TransportError"
    /\ \A a \in 0 .. 15 : device_before[a] = 255
    /\ buffer[0] = 11
    /\ device[0] = 11
    /\ device[7] = buffer[7]
    /\ device[8] = 255
    /\ device[8] # buffer[8]

====
